---- MODULE Spec2Model ----
(***************************************************************************)
(* UPS power monitor (charts/power-monitor/power_monitor.py).              *)
(*                                                                         *)
(* One PowerMonitor object and its main loop.  A tick of PowerMonitor.run  *)
(* is modelled by the program counter pc: the sensor query and the branch  *)
(* of run ("poll"), the five phases of execute_shutdown_sequence           *)
(* ("phase1" .. "phase5"), restore_power_procedures ("restore"), the sleep *)
(* that ends the tick ("sleep"), the handler of an unexpected exception    *)
(* ("except") and the end of the loop ("stopped").  The cluster API,       *)
(* kubectl, ssh and Home Assistant are the environment: every call to them *)
(* succeeds or fails nondeterministically.                                 *)
(***************************************************************************)
EXTENDS Integers, Sequences, FiniteSets, TLC

VARIABLES
    \* configuration read by __init__ (never changes afterwards)
    critical_node, priority_shutdown_nodes, secondary_shutdown_nodes,
    shutdown_pi5_01_delay, shutdown_others_delay,
    dry_run, skip_shutdown, test_mode,
    \* state tracking of the PowerMonitor object
    power_outage_start, shutdown_initiated, nodes_shutdown,
    \* the wall clock and the locals of run
    now, pc, sensor_data, power_available, elapsed_time,
    \* what the tick did: actuator calls in call order, the node listing
    \* recovery read, how often recovery ran, whether an epoch existed when
    \* the tick began, whether KeyboardInterrupt was delivered
    calls, listed, recoveries, epoch_at_poll, interrupted,
    \* the epoch so far, up to the previous poll: calls attempted, calls
    \* that succeeded, calls that failed on the previous poll
    attempted, succeeded, failed_last

config == <<critical_node, priority_shutdown_nodes, secondary_shutdown_nodes,
            shutdown_pi5_01_delay, shutdown_others_delay,
            dry_run, skip_shutdown, test_mode>>
object == <<power_outage_start, shutdown_initiated, nodes_shutdown>>
history == <<attempted, succeeded, failed_last>>
vars == <<config, object, now, pc, sensor_data, power_available, elapsed_time,
          calls, listed, recoveries, epoch_at_poll, interrupted, history>>

-----------------------------------------------------------------------------
(* Bounds of the model *)

\* the clock stops the model at MaxTime seconds
MaxTime == 360

\* seconds between two polls: the poll interval plus what the tick took
Steps == {30, 90}

-----------------------------------------------------------------------------
(* Program constants *)

None == -1

\* execute_shutdown_sequence: the hard-coded phase thresholds
Phase1At == 30
Phase2At == 60
Phase4At == 300

\* restore_power_procedures: time.sleep(60)
BootWait == 60

\* the configurations __init__ can read from the environment
Base ==
    [critical_node |-> "pi4-02",
     priority_shutdown_nodes |-> <<"pi5-01">>,
     secondary_shutdown_nodes |-> <<"pi4-01", " pi4-02">>,
     shutdown_pi5_01_delay |-> 180,
     shutdown_others_delay |-> 330,
     dry_run |-> FALSE, skip_shutdown |-> FALSE, test_mode |-> "none"]

Configs ==
    { Base,
      [Base EXCEPT !.priority_shutdown_nodes = <<"pi5-01", "pi4-02">>,
                   !.shutdown_pi5_01_delay = 15,
                   !.shutdown_others_delay = 90],
      [Base EXCEPT !.secondary_shutdown_nodes = <<" pi5-01">>,
                   !.shutdown_others_delay = 120],
      [Base EXCEPT !.dry_run = TRUE],
      [Base EXCEPT !.skip_shutdown = TRUE],
      [Base EXCEPT !.test_mode = "simulate_outage"] }

-----------------------------------------------------------------------------
(* Pure helpers *)

\* str.strip on the entries the node lists can hold
strip(s) ==
    CASE s = " pi4-02" -> "pi4-02"
      [] s = " pi4-01" -> "pi4-01"
      [] s = " pi5-01" -> "pi5-01"
      [] OTHER -> s

\* str.lower on the sensor states of the model
lower(s) ==
    CASE s = "Unknown" -> "unknown"
      [] s = "NONE" -> "none"
      [] s = "Unavailable" -> "unavailable"
      [] s = "INF" -> "inf"
      [] s = "ON" -> "on"
      [] OTHER -> s

\* float(state) succeeds on these strings (it raises ValueError on the rest)
is_float(s) == s \in {"12.5", "0", "-3.2", "1e3", "inf", "nan"}

\* the sign of float(state); nan stands with 0, as nan > 0 is False
float(s) ==
    CASE s \in {"12.5", "1e3", "inf"} -> 1
      [] s = "-3.2" -> -1
      [] OTHER -> 0

\* JSON values of the 'state' key that are no strings (null, a number)
NotAString == {"<null>", "<number>"}

\* what get_power_status returns: None on a transport failure
\* (RequestException), else the decoded JSON object of the sensor
NoData == [json |-> "None", state |-> ""]

\* the JSON object {}
EmptyDict == [json |-> "{}", state |-> ""]

\* line 92: the values 'not sensor_data' holds for
Falsy == {NoData, EmptyDict}

SensorData ==
    {NoData} \cup
    {[json |-> "dict", state |-> s] : s \in {"12.5", "0", "<null>"}}

is_power_availableTrustsNoData(data) ==
    IF test_mode = "simulate_outage" THEN "False"
    ELSE IF data \in Falsy THEN "True"
    ELSE IF data.state \in NotAString THEN "raise"
    ELSE IF lower(data.state) \in {"unavailable", "unknown", "none"} THEN "False"
    ELSE IF ~is_float(lower(data.state)) THEN "False"
    ELSE IF float(lower(data.state)) > 0 THEN "True" ELSE "False"

\* is_power_available: "True", "False", or "raise" when .lower() is called
\* on a value that is no string (AttributeError)
is_power_available(data) ==
    IF test_mode = "simulate_outage" THEN "False"
    ELSE IF data \in Falsy THEN "False"
    ELSE IF data.state \in NotAString THEN "raise"
    ELSE IF lower(data.state) \in {"unavailable", "unknown", "none"} THEN "False"
    ELSE IF ~is_float(lower(data.state)) THEN "False"
    ELSE IF float(lower(data.state)) > 0 THEN "True" ELSE "False"

-----------------------------------------------------------------------------
(* The actuators.  api_ok is the outcome of the external call: FALSE when *)
(* patch_node, kubectl or ssh raises or fails.  Each returns the value   *)
(* the method returns (ok) and whether the external call was made (real). *)

cordon_node(node_name, api_ok) ==
    IF dry_run THEN [ok |-> TRUE, real |-> FALSE]
    ELSE [ok |-> api_ok, real |-> TRUE]

uncordon_node(node_name, api_ok) ==
    IF dry_run THEN [ok |-> TRUE, real |-> FALSE]
    ELSE [ok |-> api_ok, real |-> TRUE]

drain_nodeAlwaysReal(node_name, api_ok) == [ok |-> api_ok, real |-> TRUE]

drain_node(node_name, api_ok) ==
    IF dry_run THEN [ok |-> TRUE, real |-> FALSE]
    ELSE [ok |-> api_ok, real |-> TRUE]

shutdown_nodeSkipNotRecorded(node_name, api_ok) ==
    IF dry_run \/ skip_shutdown
    THEN [ok |-> TRUE, real |-> FALSE, added |-> dry_run]
    ELSE IF api_ok THEN [ok |-> TRUE, real |-> TRUE, added |-> TRUE]
    ELSE [ok |-> FALSE, real |-> TRUE, added |-> FALSE]

\* shutdown_node also says whether it added the node to nodes_shutdown
shutdown_node(node_name, api_ok) ==
    IF dry_run \/ skip_shutdown
    THEN [ok |-> TRUE, real |-> FALSE, added |-> TRUE]
    ELSE IF api_ok THEN [ok |-> TRUE, real |-> TRUE, added |-> TRUE]
    ELSE [ok |-> FALSE, real |-> TRUE, added |-> FALSE]

\* one entry of the call log
Call(op, node, r, phase) ==
    [op |-> op, node |-> node, ok |-> r.ok, real |-> r.real, phase |-> phase]

-----------------------------------------------------------------------------
(* execute_shutdown_sequence.  bad is the set of external calls of the    *)
(* phase that fail: pairs <<op, i>> for the i-th entry of the node list.   *)

\* line 215: the guard of phase 1
Phase1Due(elapsed) == elapsed >= Phase1At /\ ~shutdown_initiated

Phase2DueWithPhase1(elapsed) == elapsed >= Phase1At

\* line 227
Phase2Due(elapsed) == elapsed >= Phase2At

Phase3DueAtFiveMinutes(elapsed) == elapsed >= Phase4At

\* line 236
Phase3Due(elapsed) == elapsed >= shutdown_pi5_01_delay

\* line 245
Phase4Due(elapsed) == elapsed >= Phase4At

\* line 255
Phase5Due(elapsed) == elapsed >= shutdown_others_delay

\* lines 221, 230, 239, 248, 258: the nodes a phase passes over
Phase1Skips(node) == node = critical_node

Phase2SkipsOnlyCritical(node, shut) == node = critical_node

Phase2Skips(node, shut) == node = critical_node \/ node \in shut

Phase3Skips(node, shut) == node = critical_node \/ node \in shut

Phase4SkipsOnlyShutDown(node, shut) == node \in shut

Phase4Skips(node, shut) == node = critical_node \/ node \in shut

Phase5Skips(node, shut) == node = critical_node \/ node \in shut

\* lines 219-224: cordon every priority node
RECURSIVE Phase1Loop(_, _)
Phase1Loop(i, bad) ==
    IF i > Len(priority_shutdown_nodes) THEN <<>>
    ELSE LET node == strip(priority_shutdown_nodes[i])
         IN  (IF Phase1Skips(node) THEN <<>>
              ELSE <<Call("cordon", node,
                          cordon_node(node, <<"cordon", i>> \notin bad), 1)>>)
             \o Phase1Loop(i + 1, bad)

\* lines 228-233: drain every priority node that is not shut down
RECURSIVE Phase2Loop(_, _)
Phase2Loop(i, bad) ==
    IF i > Len(priority_shutdown_nodes) THEN <<>>
    ELSE LET node == strip(priority_shutdown_nodes[i])
         IN  (IF Phase2Skips(node, nodes_shutdown) THEN <<>>
              ELSE <<Call("drain", node,
                          drain_node(node, <<"drain", i>> \notin bad), 2)>>)
             \o Phase2Loop(i + 1, bad)

\* lines 237-242: power off every priority node that is not shut down; shut
\* is nodes_shutdown as the loop has left it so far
RECURSIVE Phase3Loop(_, _, _)
Phase3Loop(i, shut, bad) ==
    IF i > Len(priority_shutdown_nodes) THEN [shut |-> shut, calls |-> <<>>]
    ELSE LET node == strip(priority_shutdown_nodes[i])
         IN  IF Phase3Skips(node, shut) THEN Phase3Loop(i + 1, shut, bad)
             ELSE LET r == shutdown_node(node, <<"shutdown", i>> \notin bad)
                      rest == Phase3Loop(i + 1,
                                         IF r.added THEN shut \cup {node} ELSE shut,
                                         bad)
                  IN  [shut |-> rest.shut,
                       calls |-> <<Call("shutdown", node, r, 3)>> \o rest.calls]

\* lines 246-252: cordon, then drain, every secondary node not shut down
RECURSIVE Phase4Loop(_, _)
Phase4Loop(i, bad) ==
    IF i > Len(secondary_shutdown_nodes) THEN <<>>
    ELSE LET node == strip(secondary_shutdown_nodes[i])
         IN  (IF Phase4Skips(node, nodes_shutdown) THEN <<>>
              ELSE <<Call("cordon", node,
                          cordon_node(node, <<"cordon", i>> \notin bad), 4),
                     Call("drain", node,
                          drain_node(node, <<"drain", i>> \notin bad), 4)>>)
             \o Phase4Loop(i + 1, bad)

\* lines 256-261: power off every secondary node that is not shut down
RECURSIVE Phase5Loop(_, _, _)
Phase5Loop(i, shut, bad) ==
    IF i > Len(secondary_shutdown_nodes) THEN [shut |-> shut, calls |-> <<>>]
    ELSE LET node == strip(secondary_shutdown_nodes[i])
         IN  IF Phase5Skips(node, shut) THEN Phase5Loop(i + 1, shut, bad)
             ELSE LET r == shutdown_node(node, <<"shutdown", i>> \notin bad)
                      rest == Phase5Loop(i + 1,
                                         IF r.added THEN shut \cup {node} ELSE shut,
                                         bad)
                  IN  [shut |-> rest.shut,
                       calls |-> <<Call("shutdown", node, r, 5)>> \o rest.calls]

\* the outcomes the external calls of one phase can have
Outcomes(ops, list) == SUBSET (ops \X (1 .. Len(list)))

Phase1 ==
    /\ pc = "phase1"
    /\ IF Phase1Due(elapsed_time)
       THEN \E bad \in Outcomes({"cordon"}, priority_shutdown_nodes) :
              /\ shutdown_initiated' = TRUE
              /\ calls' = calls \o Phase1Loop(1, bad)
       ELSE UNCHANGED <<shutdown_initiated, calls>>
    /\ pc' = "phase2"
    /\ UNCHANGED <<config, power_outage_start, nodes_shutdown, now, sensor_data,
                   power_available, elapsed_time, listed, recoveries,
                   epoch_at_poll, interrupted, history>>

Phase2 ==
    /\ pc = "phase2"
    /\ IF Phase2Due(elapsed_time)
       THEN \E bad \in Outcomes({"drain"}, priority_shutdown_nodes) :
              calls' = calls \o Phase2Loop(1, bad)
       ELSE UNCHANGED calls
    /\ pc' = "phase3"
    /\ UNCHANGED <<config, object, now, sensor_data, power_available,
                   elapsed_time, listed, recoveries, epoch_at_poll,
                   interrupted, history>>

Phase3 ==
    /\ pc = "phase3"
    /\ IF Phase3Due(elapsed_time)
       THEN \E bad \in Outcomes({"shutdown"}, priority_shutdown_nodes) :
              LET r == Phase3Loop(1, nodes_shutdown, bad)
              IN  /\ nodes_shutdown' = r.shut
                  /\ calls' = calls \o r.calls
       ELSE UNCHANGED <<nodes_shutdown, calls>>
    /\ pc' = "phase4"
    /\ UNCHANGED <<config, power_outage_start, shutdown_initiated, now,
                   sensor_data, power_available, elapsed_time, listed,
                   recoveries, epoch_at_poll, interrupted, history>>

Phase4 ==
    /\ pc = "phase4"
    /\ IF Phase4Due(elapsed_time)
       THEN \E bad \in Outcomes({"cordon", "drain"}, secondary_shutdown_nodes) :
              calls' = calls \o Phase4Loop(1, bad)
       ELSE UNCHANGED calls
    /\ pc' = "phase5"
    /\ UNCHANGED <<config, object, now, sensor_data, power_available,
                   elapsed_time, listed, recoveries, epoch_at_poll,
                   interrupted, history>>

Phase5 ==
    /\ pc = "phase5"
    /\ IF Phase5Due(elapsed_time)
       THEN \E bad \in Outcomes({"shutdown"}, secondary_shutdown_nodes) :
              LET r == Phase5Loop(1, nodes_shutdown, bad)
              IN  /\ nodes_shutdown' = r.shut
                  /\ calls' = calls \o r.calls
       ELSE UNCHANGED <<nodes_shutdown, calls>>
    /\ pc' = "sleep"
    /\ UNCHANGED <<config, power_outage_start, shutdown_initiated, now,
                   sensor_data, power_available, elapsed_time, listed,
                   recoveries, epoch_at_poll, interrupted, history>>

-----------------------------------------------------------------------------
(* restore_power_procedures *)

\* the condition lists a node of the listing can carry
ReadyConditions == {<<"Ready", "True">>, <<"MemoryPressure", "False">>}

NotReadyConditions == {<<"Ready", "Unknown">>, <<"DiskPressure", "True">>}

\* one node of the listing, as list_node reports it
NodeViews(name, conds) ==
    {[name |-> name, conditions |-> c, unschedulable |-> u] :
        c \in conds, u \in BOOLEAN}

\* the listings list_node can return (the API lists nodes in name order);
\* pi4-01 may have left the cluster
Listings ==
    LET A == NodeViews("pi4-01", {ReadyConditions, NotReadyConditions})
        B == NodeViews("pi4-02", {ReadyConditions})
        C == NodeViews("pi5-01", {ReadyConditions, NotReadyConditions})
    IN  {<<b, c>> : b \in B, c \in C}
        \cup {<<a, b, c>> : a \in A, b \in B, c \in C}

\* lines 282-286
is_ready(node) ==
    \E condition \in node.conditions :
        condition[1] = "Ready" /\ condition[2] = "True"

NeedsUncordonIgnoresReady(ready, unschedulable) == unschedulable

\* line 289
NeedsUncordon(ready, unschedulable) == ready /\ unschedulable

\* line 278
RestoreSkips(node_name) == node_name = critical_node

\* lines 274-291: bad holds the positions whose uncordon call fails
RECURSIVE RestoreLoop(_, _, _)
RestoreLoop(items, i, bad) ==
    IF i > Len(items) THEN <<>>
    ELSE LET node == items[i]
         IN  (IF RestoreSkips(node.name) THEN <<>>
              ELSE IF NeedsUncordon(is_ready(node), node.unschedulable)
              THEN <<Call("uncordon", node.name,
                          uncordon_node(node.name, i \notin bad), 0)>>
              ELSE <<>>)
             \o RestoreLoop(items, i + 1, bad)

ResetStateKeepsShutDown(list_ok) ==
    [power_outage_start |-> None, shutdown_initiated |-> FALSE,
     nodes_shutdown |-> nodes_shutdown]

ResetStateInsideTry(list_ok) ==
    IF list_ok
    THEN [power_outage_start |-> None, shutdown_initiated |-> FALSE,
          nodes_shutdown |-> {}]
    ELSE [power_outage_start |-> power_outage_start,
          shutdown_initiated |-> shutdown_initiated,
          nodes_shutdown |-> nodes_shutdown]

\* lines 295-298: the state tracking after recovery; list_ok says whether
\* list_node returned
ResetState(list_ok) ==
    [power_outage_start |-> None, shutdown_initiated |-> FALSE,
     nodes_shutdown |-> {}]

restore_power_procedures ==
    /\ pc = "restore"
    /\ now' = now + BootWait
    /\ recoveries' = recoveries + 1
    /\ \E list_ok \in BOOLEAN :
         /\ IF list_ok
            THEN \E items \in Listings :
                   \E bad \in SUBSET {i \in 1 .. Len(items) :
                                         items[i].unschedulable} :
                     /\ listed' = items
                     /\ calls' = calls \o RestoreLoop(items, 1, bad)
            ELSE UNCHANGED <<listed, calls>>
         /\ power_outage_start' = ResetState(list_ok).power_outage_start
         /\ shutdown_initiated' = ResetState(list_ok).shutdown_initiated
         /\ nodes_shutdown' = ResetState(list_ok).nodes_shutdown
    /\ attempted' = {}
    /\ succeeded' = {}
    /\ failed_last' = {}
    /\ pc' = "sleep"
    /\ UNCHANGED <<config, sensor_data, power_available, elapsed_time,
                   epoch_at_poll, interrupted>>

-----------------------------------------------------------------------------
(* run: one iteration of the main loop *)

\* the calls of a tick as <<op, node>> pairs
Ops(cs) == {<<cs[i].op, cs[i].node>> : i \in DOMAIN cs}

OkOps(cs) == {<<cs[i].op, cs[i].node>> : i \in {j \in DOMAIN cs : cs[j].ok}}

FailedOps(cs) ==
    {<<cs[i].op, cs[i].node>> : i \in {j \in DOMAIN cs : ~cs[j].ok}} \ OkOps(cs)

\* the tick begins: the calls of the previous poll join the epoch's record
BeginTick ==
    /\ calls' = <<>>
    /\ listed' = <<>>
    /\ recoveries' = 0
    /\ epoch_at_poll' = (power_outage_start # None)
    /\ attempted' = IF power_outage_start = None THEN {}
                    ELSE attempted \cup Ops(calls)
    /\ succeeded' = IF power_outage_start = None THEN {}
                    ELSE succeeded \cup OkOps(calls)
    /\ failed_last' = IF power_outage_start = None THEN {}
                      ELSE FailedOps(calls)

RunsRestoreOnlyIfShutDown(initiated, shut) == shut # {}

\* line 348
RunsRestore(initiated, shut) == initiated \/ shut # {}

NewOutageStartEveryTick(start, t) == t

NewOutageStartInverted(start, t) == IF start # None THEN t ELSE start

\* lines 362-364
NewOutageStart(start, t) == IF start = None THEN t ELSE start

\* lines 337-349: power is back after an outage that touched nodes
RunPowerRestored ==
    /\ pc = "poll"
    /\ \E data \in SensorData :
         /\ is_power_available(data) = "True"
         /\ sensor_data' = data
    /\ power_outage_start # None
    /\ RunsRestore(shutdown_initiated, nodes_shutdown)
    /\ power_available' = TRUE
    /\ BeginTick
    /\ pc' = "restore"
    /\ UNCHANGED <<config, object, now, elapsed_time, interrupted>>

\* lines 350-353: power is back after an outage that touched nothing
RunJustReset ==
    /\ pc = "poll"
    /\ \E data \in SensorData :
         /\ is_power_available(data) = "True"
         /\ sensor_data' = data
    /\ power_outage_start # None
    /\ ~RunsRestore(shutdown_initiated, nodes_shutdown)
    /\ power_available' = TRUE
    /\ power_outage_start' = None
    /\ shutdown_initiated' = FALSE
    /\ calls' = <<>>
    /\ listed' = <<>>
    /\ recoveries' = 0
    /\ epoch_at_poll' = TRUE
    /\ attempted' = {}
    /\ succeeded' = {}
    /\ failed_last' = {}
    /\ pc' = "sleep"
    /\ UNCHANGED <<config, nodes_shutdown, now, elapsed_time, interrupted>>

\* lines 340-342, 355-358: power is available and no outage is running
RunPowerOk ==
    /\ pc = "poll"
    /\ \E data \in SensorData :
         /\ is_power_available(data) = "True"
         /\ sensor_data' = data
    /\ power_outage_start = None
    /\ power_available' = TRUE
    /\ BeginTick
    /\ pc' = "sleep"
    /\ UNCHANGED <<config, object, now, elapsed_time, interrupted>>

\* lines 360-373: power is out
RunPowerOut ==
    /\ pc = "poll"
    /\ \E data \in SensorData :
         /\ is_power_available(data) = "False"
         /\ sensor_data' = data
    /\ power_available' = FALSE
    /\ power_outage_start' = NewOutageStart(power_outage_start, now)
    /\ elapsed_time' = now - power_outage_start'
    /\ BeginTick
    /\ pc' = "phase1"
    /\ UNCHANGED <<config, shutdown_initiated, nodes_shutdown, now, interrupted>>

OnExceptionBreak == "stopped"

\* line 381: where run goes when the tick raised an Exception
OnException == "except"

\* lines 338, 381-382: is_power_available raised
RunException ==
    /\ pc = "poll"
    /\ \E data \in SensorData :
         /\ is_power_available(data) = "raise"
         /\ sensor_data' = data
    /\ pc' = OnException
    /\ UNCHANGED <<config, object, now, power_available, elapsed_time, calls,
                   listed, recoveries, epoch_at_poll, interrupted, history>>

\* line 376: time.sleep(poll_interval), then the next iteration
Sleep ==
    /\ pc = "sleep"
    /\ \E step \in Steps :
         /\ now + step <= MaxTime
         /\ now' = now + step
    /\ pc' = "poll"
    /\ UNCHANGED <<config, object, sensor_data, power_available, elapsed_time,
                   calls, listed, recoveries, epoch_at_poll, interrupted,
                   history>>

\* line 383: time.sleep(poll_interval) in the handler, then the next iteration
ExceptSleep ==
    /\ pc = "except"
    /\ \E step \in Steps :
         /\ now + step <= MaxTime
         /\ now' = now + step
    /\ pc' = "poll"
    /\ UNCHANGED <<config, object, sensor_data, power_available, elapsed_time,
                   calls, listed, recoveries, epoch_at_poll, interrupted,
                   history>>

\* lines 378-380: the stop signal ends the loop; it is delivered while the
\* loop sleeps, where the process spends its time
KeyboardInterrupt ==
    /\ pc \in {"sleep", "except"}
    /\ pc' = "stopped"
    /\ interrupted' = TRUE
    /\ UNCHANGED <<config, object, now, sensor_data, power_available,
                   elapsed_time, calls, listed, recoveries, epoch_at_poll,
                   history>>

-----------------------------------------------------------------------------

\* __init__, lines 26-54, and the locals of run before the first tick
Init ==
    /\ \E c \in Configs :
         /\ critical_node = c.critical_node
         /\ priority_shutdown_nodes = c.priority_shutdown_nodes
         /\ secondary_shutdown_nodes = c.secondary_shutdown_nodes
         /\ shutdown_pi5_01_delay = c.shutdown_pi5_01_delay
         /\ shutdown_others_delay = c.shutdown_others_delay
         /\ dry_run = c.dry_run
         /\ skip_shutdown = c.skip_shutdown
         /\ test_mode = c.test_mode
    /\ power_outage_start = None
    /\ shutdown_initiated = FALSE
    /\ nodes_shutdown = {}
    /\ now = 0
    /\ pc = "poll"
    /\ sensor_data = NoData
    /\ power_available = TRUE
    /\ elapsed_time = 0
    /\ calls = <<>>
    /\ listed = <<>>
    /\ recoveries = 0
    /\ epoch_at_poll = FALSE
    /\ interrupted = FALSE
    /\ attempted = {}
    /\ succeeded = {}
    /\ failed_last = {}

Next ==
    \/ RunPowerRestored
    \/ RunJustReset
    \/ RunPowerOk
    \/ RunPowerOut
    \/ RunException
    \/ Phase1
    \/ Phase2
    \/ Phase3
    \/ Phase4
    \/ Phase5
    \/ restore_power_procedures
    \/ Sleep
    \/ ExceptSleep
    \/ KeyboardInterrupt

Spec == Init /\ [][Next]_vars

-----------------------------------------------------------------------------
(* An outage observed at every poll from the start of the loop, under the   *)
(* default configuration (lines 33-35: delays 180 and 420) and polls that   *)
(* follow each other at the default POLL_INTERVAL of 15 s (line 31) or, a  *)
(* tick having taken its time, 20 s.                                        *)

\* the clock stops this run at OutageMaxTime seconds
OutageMaxTime == 200

OutageSteps == {15, 20}

Defaults == [Base EXCEPT !.shutdown_others_delay = 420]

OutageInit ==
    /\ critical_node = Defaults.critical_node
    /\ priority_shutdown_nodes = Defaults.priority_shutdown_nodes
    /\ secondary_shutdown_nodes = Defaults.secondary_shutdown_nodes
    /\ shutdown_pi5_01_delay = Defaults.shutdown_pi5_01_delay
    /\ shutdown_others_delay = Defaults.shutdown_others_delay
    /\ dry_run = Defaults.dry_run
    /\ skip_shutdown = Defaults.skip_shutdown
    /\ test_mode = Defaults.test_mode
    /\ power_outage_start = None
    /\ shutdown_initiated = FALSE
    /\ nodes_shutdown = {}
    /\ now = 0
    /\ pc = "poll"
    /\ sensor_data = NoData
    /\ power_available = TRUE
    /\ elapsed_time = 0
    /\ calls = <<>>
    /\ listed = <<>>
    /\ recoveries = 0
    /\ epoch_at_poll = FALSE
    /\ interrupted = FALSE
    /\ attempted = {}
    /\ succeeded = {}
    /\ failed_last = {}

\* line 376, with the poll intervals of this run
OutageSleep ==
    /\ pc = "sleep"
    /\ \E step \in OutageSteps :
         /\ now + step <= OutageMaxTime
         /\ now' = now + step
    /\ pc' = "poll"
    /\ UNCHANGED <<config, object, sensor_data, power_available, elapsed_time,
                   calls, listed, recoveries, epoch_at_poll, interrupted,
                   history>>

OutageNext ==
    \/ RunPowerOut
    \/ Phase1
    \/ Phase2
    \/ Phase3
    \/ Phase4
    \/ Phase5
    \/ OutageSleep

OutageSpec == OutageInit /\ [][OutageNext]_vars

-----------------------------------------------------------------------------
(* The sensor query and is_power_available alone, over a wider set of      *)
(* sensor answers: the loop queries, evaluates the answer and sleeps.      *)

\* the values of the 'state' key: readings, the states Home Assistant
\* gives a sensor it cannot read, other text, no 'state' key (read as ''
\* by .get at line 95), and values that are no strings
SensorStates ==
    {"12.5", "1e3", "inf", "INF", "0", "-3.2", "nan",
     "unavailable", "Unavailable", "unknown", "Unknown", "none", "NONE",
     "on", "ON", ""} \cup NotAString

SensorInputs ==
    Falsy \cup {[json |-> "dict", state |-> s] : s \in SensorStates}

SensorInit ==
    /\ \E c \in {Base, [Base EXCEPT !.test_mode = "simulate_outage"]} :
         /\ critical_node = c.critical_node
         /\ priority_shutdown_nodes = c.priority_shutdown_nodes
         /\ secondary_shutdown_nodes = c.secondary_shutdown_nodes
         /\ shutdown_pi5_01_delay = c.shutdown_pi5_01_delay
         /\ shutdown_others_delay = c.shutdown_others_delay
         /\ dry_run = c.dry_run
         /\ skip_shutdown = c.skip_shutdown
         /\ test_mode = c.test_mode
    /\ power_outage_start = None
    /\ shutdown_initiated = FALSE
    /\ nodes_shutdown = {}
    /\ now = 0
    /\ pc = "poll"
    /\ sensor_data = NoData
    /\ power_available = TRUE
    /\ elapsed_time = 0
    /\ calls = <<>>
    /\ listed = <<>>
    /\ recoveries = 0
    /\ epoch_at_poll = FALSE
    /\ interrupted = FALSE
    /\ attempted = {}
    /\ succeeded = {}
    /\ failed_last = {}

\* line 337: sensor_data = self.get_power_status()
get_power_status ==
    /\ pc = "poll"
    /\ sensor_data' \in SensorInputs
    /\ pc' = "queried"
    /\ UNCHANGED <<config, object, now, power_available, elapsed_time, calls,
                   listed, recoveries, epoch_at_poll, interrupted, history>>

\* line 338: power_available = self.is_power_available(sensor_data)
PowerAvailableReturns ==
    /\ pc = "queried"
    /\ is_power_available(sensor_data) # "raise"
    /\ power_available' = (is_power_available(sensor_data) = "True")
    /\ pc' = "sleep"
    /\ UNCHANGED <<config, object, now, sensor_data, elapsed_time, calls,
                   listed, recoveries, epoch_at_poll, interrupted, history>>

\* lines 338, 381: is_power_available raised
PowerAvailableRaises ==
    /\ pc = "queried"
    /\ is_power_available(sensor_data) = "raise"
    /\ pc' = OnException
    /\ UNCHANGED <<config, object, now, sensor_data, power_available,
                   elapsed_time, calls, listed, recoveries, epoch_at_poll,
                   interrupted, history>>

SensorNext ==
    \/ get_power_status
    \/ PowerAvailableReturns
    \/ PowerAvailableRaises
    \/ Sleep
    \/ ExceptSleep

SensorSpec == SensorInit /\ [][SensorNext]_vars

-----------------------------------------------------------------------------
(* Properties *)

AllNodes == {"pi4-01", "pi4-02", "pi5-01"}

\* the stripped names of a node list
Names(list) == {strip(list[i]) : i \in DOMAIN list}

\* call i of the tick was preceded, in the tick, by a call op on node
Earlier(i, op, node) ==
    \E j \in 1 .. (i - 1) : calls[j].op = op /\ calls[j].node = node

\* ... by a call op on node that succeeded
EarlierOk(i, op, node) ==
    \E j \in 1 .. (i - 1) :
        calls[j].op = op /\ calls[j].node = node /\ calls[j].ok

\* how many calls op the tick made on node
Count(op, node) ==
    Cardinality({i \in DOMAIN calls : calls[i].op = op /\ calls[i].node = node})

\* C1: no cordon, uncordon, drain or power-off is ever invoked on the
\* critical node, whichever list or listing names it.
C1_CriticalNeverActuated ==
    \A i \in DOMAIN calls : calls[i].node # critical_node

\* the critical node stands in both node lists, and a poll past every
\* threshold has run phases 2 to 5 on the other nodes
C1_Witness ==
    /\ pc = "sleep"
    /\ critical_node \in Names(priority_shutdown_nodes)
    /\ critical_node \in Names(secondary_shutdown_nodes)
    /\ \A p \in 2 .. 5 : \E i \in DOMAIN calls : calls[i].phase = p

\* C2: once a cordon, drain or power-off has succeeded for a node in an
\* epoch, no later poll of the epoch issues the same call for that node.
C2_NoRepeatAfterSuccess ==
    \A i \in DOMAIN calls :
        calls[i].op \in {"cordon", "drain", "shutdown"}
            => <<calls[i].op, calls[i].node>> \notin succeeded

\* C3: a call that failed on the previous poll of the epoch is made again on
\* this poll (elapsed time only grows, so its guard is still met).
C3_FailedIsRetried ==
    (pc = "sleep" /\ ~power_available)
        => \A c \in failed_last :
              \E i \in DOMAIN calls : calls[i].op = c[1] /\ calls[i].node = c[2]

\* C4: drain is attempted on a node only after a cordon of it succeeded in
\* the epoch, and power-off only after a drain of it succeeded in the epoch.
C4_NoStageSkipped ==
    \A i \in DOMAIN calls :
        /\ calls[i].op = "drain"
              => \/ <<"cordon", calls[i].node>> \in succeeded
                 \/ EarlierOk(i, "cordon", calls[i].node)
        /\ calls[i].op = "shutdown"
              => \/ <<"drain", calls[i].node>> \in succeeded
                 \/ EarlierOk(i, "drain", calls[i].node)

\* C5: at the end of every tick an epoch exists (power_outage_start is set)
\* if and only if the tick observed 'power unavailable'.
C5_EpochIffUnavailable ==
    pc = "sleep" => ((power_outage_start # None) <=> ~power_available)

\* a tick that began with an epoch observed power available and ended
C5_Witness ==
    /\ pc = "sleep"
    /\ epoch_at_poll
    /\ power_available
    /\ power_outage_start = None

\* C6, as claimed: a tick that observes power available while an epoch
\* exists runs recovery exactly once, whatever the outage lasted, and
\* discards the epoch.
C6_RecoveryAlwaysRuns ==
    (pc = "sleep" /\ power_available /\ epoch_at_poll)
        => (recoveries = 1 /\ power_outage_start = None)

\* C6, amended: such a tick runs recovery exactly once when phase 1 was
\* initiated or a node is recorded as shut down, and not at all otherwise;
\* either way the epoch is discarded when the tick ends.
C6_RecoveryIffShutdownBegan ==
    [][ /\ (pc = "poll" /\ pc' \in {"restore", "sleep"}
               /\ power_outage_start # None)
           => IF shutdown_initiated \/ nodes_shutdown # {}
              THEN pc' = "restore" /\ recoveries' = 0
              ELSE pc' = "sleep" /\ recoveries' = 0
                     /\ power_outage_start' = None
        /\ pc = "restore"
           => pc' = "sleep" /\ recoveries' = 1 /\ power_outage_start' = None
      ]_vars

\* an outage that ended before the first threshold: the epoch is gone and
\* recovery did not run
C6_Witness ==
    /\ pc = "sleep"
    /\ power_available
    /\ epoch_at_poll
    /\ recoveries = 0
    /\ power_outage_start = None

C8_ResetWhateverRecoveryDid ==
    /\ (pc = "sleep" /\ recoveries = 1)
          => /\ power_outage_start = None
             /\ ~shutdown_initiated
             /\ nodes_shutdown = {}
    /\ \A i \in DOMAIN calls :
          calls[i].op = "uncordon" => (recoveries = 1 /\ epoch_at_poll)

\* recovery ran, an uncordon call failed, and the state is reset
C8_Witness ==
    /\ pc = "sleep"
    /\ recoveries = 1
    /\ \E i \in DOMAIN calls : calls[i].op = "uncordon" /\ ~calls[i].ok

\* C9: the loop ends only on the stop signal; after a tick that raised, or
\* whose sensor query or actuator calls failed, the loop goes on to its
\* next iteration.
C9_OnlyStopSignalEndsLoop ==
    /\ pc = "stopped" => interrupted
    /\ pc \in {"poll", "phase1", "phase2", "phase3", "phase4", "phase5",
               "restore"}
          => ENABLED (Next /\ pc' # "stopped")
    /\ (pc \in {"sleep", "except"} /\ \E step \in Steps : now + step <= MaxTime)
          => ENABLED (Next /\ pc' = "poll")

\* the loop is back at the top of an iteration after a tick that raised
C9_Witness ==
    /\ pc = "poll"
    /\ now > 0
    /\ sensor_data.state \in NotAString
    /\ ~interrupted

\* C10: when the priority power-off threshold is not larger than the
\* secondary one, every power-off of the secondary tier (phase 5) comes
\* after a power-off attempt, in the same epoch, on every non-critical
\* priority node.
C10_PriorityPoweredOffFirst ==
    shutdown_pi5_01_delay <= shutdown_others_delay
        => \A i \in DOMAIN calls :
              (calls[i].op = "shutdown" /\ calls[i].phase = 5)
                  => \A n \in Names(priority_shutdown_nodes) \ {critical_node} :
                        \/ <<"shutdown", n>> \in attempted
                        \/ Earlier(i, "shutdown", n)

\* a secondary node is powered off in a configuration with a priority node
C10_Witness ==
    /\ shutdown_pi5_01_delay <= shutdown_others_delay
    /\ Names(priority_shutdown_nodes) \ {critical_node} # {}
    /\ \E i \in DOMAIN calls : calls[i].op = "shutdown" /\ calls[i].phase = 5

\* C11: a secondary node (one that is in no other tier and is not shut
\* down) whose cordon succeeded and whose drain failed on the previous poll
\* is only drained on this poll: cordon is not issued for it again.
C11_OnlyDrainIsRetried ==
    (pc = "sleep" /\ ~power_available)
        => \A n \in Names(secondary_shutdown_nodes)
                      \ (Names(priority_shutdown_nodes) \cup nodes_shutdown
                            \cup {critical_node}) :
              (<<"cordon", n>> \in succeeded /\ <<"drain", n>> \in failed_last)
                  => (Count("drain", n) >= 1 /\ Count("cordon", n) = 0)

\* every call of the epoch so far, this poll included, succeeded
AllCallsSucceeded ==
    /\ attempted = succeeded
    /\ \A i \in DOMAIN calls : calls[i].ok

\* op on node succeeded in the epoch, this poll included
Done(op, node) == <<op, node>> \in succeeded \cup OkOps(calls)

\* op on node was called in the epoch, this poll included
Tried(op, node) == <<op, node>> \in attempted \cup Ops(calls)

\* C12: under the default thresholds (cordon 30, drain 60, power-off 180), an
\* outage observed at every poll and every actuator call succeeding, after a
\* poll with 30 <= elapsed < 60 (such as 45) a priority node is cordoned and
\* neither drained nor powered off; after a poll with elapsed >= 180 (such
\* as 200) it is cordoned, drained and powered off and recorded as shut
\* down; and its drain never comes before its cordon, nor its power-off
\* before its drain.
C12_ScenarioA ==
    (pc = "sleep" /\ AllCallsSucceeded)
        => \A n \in Names(priority_shutdown_nodes) \ {critical_node} :
              /\ (Phase1At <= elapsed_time /\ elapsed_time < Phase2At)
                    => /\ Done("cordon", n)
                       /\ ~Tried("drain", n)
                       /\ ~Tried("shutdown", n)
                       /\ n \notin nodes_shutdown
              /\ elapsed_time >= shutdown_pi5_01_delay
                    => /\ Done("cordon", n)
                       /\ Done("drain", n)
                       /\ Done("shutdown", n)
                       /\ n \in nodes_shutdown
              /\ \A i \in DOMAIN calls :
                    /\ (calls[i].node = n /\ calls[i].op = "drain")
                          => \/ <<"cordon", n>> \in succeeded
                             \/ EarlierOk(i, "cordon", n)
                    /\ (calls[i].node = n /\ calls[i].op = "shutdown")
                          => \/ <<"drain", n>> \in succeeded
                             \/ EarlierOk(i, "drain", n)

\* the poll at elapsed 200 of an outage whose calls all succeeded and whose
\* first poll past the cordon threshold came before the drain threshold
C12_Witness ==
    /\ pc = "sleep"
    /\ elapsed_time = 200
    /\ AllCallsSucceeded
    /\ "pi5-01" \in nodes_shutdown
    /\ <<"cordon", "pi5-01">> \in succeeded
    /\ <<"drain", "pi5-01">> \in succeeded
    /\ Done("shutdown", "pi5-01")


\* C13: in dry-run no actuator call has a real side effect and every call
\* reports success, recovery's uncordon included; and the progress of the
\* outage is that of an outage whose calls all succeed: phase 1 is latched
\* from the first poll past 30 s and each non-critical node is recorded as
\* shut down from the first poll past its tier's power-off delay.
C13_DryRunOnlyLogs ==
    dry_run
        => /\ \A i \in DOMAIN calls : ~calls[i].real /\ calls[i].ok
           /\ (pc = "sleep" /\ ~power_available)
                 => /\ shutdown_initiated <=> elapsed_time >= Phase1At
                    /\ nodes_shutdown =
                          {n \in Names(priority_shutdown_nodes) \ {critical_node} :
                              elapsed_time >= shutdown_pi5_01_delay}
                          \cup
                          {n \in Names(secondary_shutdown_nodes) \ {critical_node} :
                              elapsed_time >= shutdown_others_delay}

\* a dry run in which both tiers were cordoned, drained and powered off
C13_Witness ==
    /\ dry_run
    /\ pc = "sleep"
    /\ nodes_shutdown = {"pi5-01", "pi4-01"}
    /\ {<<"cordon", "pi5-01">>, <<"drain", "pi5-01">>, <<"shutdown", "pi5-01">>}
          \subseteq succeeded
    /\ \E i \in DOMAIN calls : calls[i].op = "shutdown" /\ calls[i].node = "pi4-01"


\* C14: with skip_shutdown set and dry_run off, every cordon and drain is
\* really performed, no power-off command is ever executed, each power-off
\* step reports success and records its node as shut down, and a node whose
\* power-off step has fired gets no further drain or power-off in the epoch.
C14_SkipShutdownStillRecords ==
    (skip_shutdown /\ ~dry_run)
        => \A i \in DOMAIN calls :
              /\ calls[i].op \in {"cordon", "drain"} => calls[i].real
              /\ calls[i].op = "shutdown"
                    => /\ ~calls[i].real
                       /\ calls[i].ok
                       /\ calls[i].node \in nodes_shutdown
              /\ calls[i].op \in {"drain", "shutdown"}
                    => /\ <<"shutdown", calls[i].node>> \notin attempted
                       /\ ~Earlier(i, "shutdown", calls[i].node)

\* skip_shutdown: the priority node's power-off step fired on an earlier
\* poll; this poll, past the drain threshold, leaves the node alone and
\* really cordons and drains the secondary node
C14_Witness ==
    /\ skip_shutdown /\ ~dry_run
    /\ pc = "sleep"
    /\ ~power_available
    /\ <<"shutdown", "pi5-01">> \in attempted
    /\ "pi5-01" \in nodes_shutdown
    /\ \A i \in DOMAIN calls : calls[i].node # "pi5-01"
    /\ \E i \in DOMAIN calls : calls[i].op = "drain" /\ calls[i].real

\* the answers whose state is a numeric reading greater than 0
PositiveReadings ==
    {[json |-> "dict", state |-> s] : s \in {"12.5", "1e3", "inf", "INF"}}

\* C15: is_power_available returns for every answer of the sensor, and
\* returns True exactly when simulate_outage is off, the answer is present
\* and its state is a numeric reading greater than 0; every other answer
\* (a reading of 0 or below, unavailable/unknown/none in any case, other
\* text, no state, a state that is no number, no answer) gives False.
C15_AvailableIffPositiveReading ==
    pc \in {"sleep", "except"}
        => /\ pc = "sleep"
           /\ power_available <=>
                 (test_mode # "simulate_outage" /\ sensor_data \in PositiveReadings)


\* C16: a tick whose sensor query failed (get_power_status returned None) is
\* a tick that observed 'power unavailable': it starts an epoch at now when
\* none exists and keeps the start of an existing one, computes the elapsed
\* time and enters the shutdown phases; it does not end the epoch, does not
\* run recovery and leaves the latch and the shut-down set to the phases.
C16_FailedQueryIsUnavailable ==
    [][ (pc = "poll" /\ pc' # "poll" /\ sensor_data' = NoData)
           => /\ pc' = "phase1"
              /\ ~power_available'
              /\ power_outage_start' =
                    (IF power_outage_start = None THEN now ELSE power_outage_start)
              /\ power_outage_start' # None
              /\ elapsed_time' = now - power_outage_start'
              /\ recoveries' = 0
              /\ UNCHANGED <<shutdown_initiated, nodes_shutdown, now>>
      ]_vars

\* a tick of a running epoch whose query failed has run shutdown phases
C16_Witness ==
    /\ pc = "sleep"
    /\ sensor_data = NoData
    /\ test_mode = "none"
    /\ epoch_at_poll
    /\ ~power_available
    /\ power_outage_start # None
    /\ calls # <<>>


\* the smallest elapsed time at which the guard of (op, node) is met: the
\* threshold of the phase that makes the call, over the tiers the node is in
Thresholds(op, node) ==
    (IF node \in Names(priority_shutdown_nodes)
     THEN {CASE op = "cordon" -> Phase1At
             [] op = "drain" -> Phase2At
             [] OTHER -> shutdown_pi5_01_delay}
     ELSE {})
    \cup
    (IF node \in Names(secondary_shutdown_nodes)
     THEN {IF op \in {"cordon", "drain"} THEN Phase4At
           ELSE shutdown_others_delay}
     ELSE {})

\* the transitions of the configured nodes
Transitions ==
    {"cordon", "drain", "shutdown"}
        \X ((Names(priority_shutdown_nodes) \cup Names(secondary_shutdown_nodes))
               \ {critical_node})

\* the guard of b is met whenever the guard of a is
DueNoLater(b, a) ==
    \A ta \in Thresholds(a[1], a[2]) :
        \E tb \in Thresholds(b[1], b[2]) : tb <= ta

\* C17: a transition that was attempted at an earlier poll e1 of the epoch
\* had its guard met at e1, and so had every transition whose threshold is
\* not larger; each of those has been attempted by the end of this poll
\* (e2 > e1).
C17_DueEarlierIsAttempted ==
    (pc = "sleep" /\ ~power_available)
        => \A a \in attempted \cap Transitions :
              \A b \in Transitions :
                  DueNoLater(b, a) => b \in attempted \cup Ops(calls)


\* C18: the tick that observes 'unavailable' with no epoch sets
\* power_outage_start to now; a tick that observes 'unavailable' while an
\* epoch exists leaves it as it is, and the elapsed time it hands to the
\* shutdown phases is not smaller than that of the epoch's previous poll;
\* the phases, whatever their calls return, do not touch the start either.
C18_StartSetOnce ==
    [][ /\ (pc = "poll" /\ pc' = "phase1" /\ power_outage_start = None)
           => /\ power_outage_start' = now
              /\ elapsed_time' = 0
        /\ (pc = "poll" /\ pc' = "phase1" /\ power_outage_start # None)
           => /\ power_outage_start' = power_outage_start
              /\ elapsed_time' >= elapsed_time
        /\ pc \in {"phase1", "phase2", "phase3", "phase4", "phase5"}
           => UNCHANGED <<power_outage_start, elapsed_time>>
      ]_vars

\* a later poll of an epoch that began after the loop did, following a poll
\* on which an actuator call failed
C18_Witness ==
    /\ pc = "phase1"
    /\ epoch_at_poll
    /\ power_outage_start > 0
    /\ elapsed_time > Phase1At
    /\ failed_last # {}


\* C19: a node whose power-off succeeded on an earlier poll of the epoch is
\* in nodes_shutdown and gets no drain and no power-off on this poll; a node
\* whose power-off failed on the previous poll was left out of
\* nodes_shutdown and its power-off is invoked again on this poll.
C19_ShutDownNodeLeftAlone ==
    /\ \A n \in AllNodes :
          <<"shutdown", n>> \in succeeded
              => /\ n \in nodes_shutdown
                 /\ Count("drain", n) = 0
                 /\ Count("shutdown", n) = 0
    /\ (pc = "sleep" /\ ~power_available)
          => \A n \in AllNodes :
                <<"shutdown", n>> \in failed_last
                    => /\ <<"shutdown", n>> \notin succeeded
                       /\ Count("shutdown", n) >= 1

\* real power-offs: the priority node went down on an earlier poll and is
\* left alone, the secondary node's power-off failed on the previous poll
\* and is made again
C19_Witness ==
    /\ ~dry_run /\ ~skip_shutdown
    /\ pc = "sleep"
    /\ <<"shutdown", "pi5-01">> \in succeeded
    /\ <<"shutdown", "pi4-01">> \in failed_last
    /\ Count("shutdown", "pi4-01") = 1
    /\ \A i \in DOMAIN calls : calls[i].node # "pi5-01"


\* C20: whenever the loop is between two ticks and no epoch exists
\* (power_outage_start is unset), the phase-1 latch is false and
\* nodes_shutdown is empty, whether the last epoch ended with or without
\* the recovery procedure or none has existed yet.
C20_NoEpochMeansCleanState ==
    (pc \in {"poll", "sleep", "except", "stopped"} /\ power_outage_start = None)
        => (~shutdown_initiated /\ nodes_shutdown = {})

\* the loop is back at the top after a tick that ran recovery, whose
\* listing failed
C20_Witness ==
    /\ pc = "poll"
    /\ recoveries = 1
    /\ listed = <<>>
    /\ power_outage_start = None
    /\ ~shutdown_initiated
    /\ nodes_shutdown = {}

====
